---- MODULE Spec2Model ----
(***************************************************************************)
(* College & State Analytics Dashboard (src/dashboard/main.py).            *)
(*                                                                         *)
(* A Python string is a sequence of one-character strings, so that strip,  *)
(* split and the `in` substring test are computed, not assumed.            *)
(***************************************************************************)
EXTENDS Integers, Sequences, FiniteSets, TLC

----------------------------------------------------------------------------
\* KNOWN_STATES (main.py 7-18): the literals of the list.

S_Andhra_Pradesh ==
  <<"A","n","d","h","r","a"," ","P","r","a","d","e","s","h">>

S_Arunachal_Pradesh ==
  <<"A","r","u","n","a","c","h","a","l"," ","P","r","a","d","e","s","h">>

S_Assam ==
  <<"A","s","s","a","m">>

S_Bihar ==
  <<"B","i","h","a","r">>

S_Chhattisgarh ==
  <<"C","h","h","a","t","t","i","s","g","a","r","h">>

S_Goa ==
  <<"G","o","a">>

S_Gujarat ==
  <<"G","u","j","a","r","a","t">>

S_Haryana ==
  <<"H","a","r","y","a","n","a">>

S_Himachal_Pradesh ==
  <<"H","i","m","a","c","h","a","l"," ","P","r","a","d","e","s","h">>

S_Jharkhand ==
  <<"J","h","a","r","k","h","a","n","d">>

S_Karnataka ==
  <<"K","a","r","n","a","t","a","k","a">>

S_Kerala ==
  <<"K","e","r","a","l","a">>

S_Madhya_Pradesh ==
  <<"M","a","d","h","y","a"," ","P","r","a","d","e","s","h">>

S_Maharashtra ==
  <<"M","a","h","a","r","a","s","h","t","r","a">>

S_Manipur ==
  <<"M","a","n","i","p","u","r">>

S_Meghalaya ==
  <<"M","e","g","h","a","l","a","y","a">>

S_Mizoram ==
  <<"M","i","z","o","r","a","m">>

S_Nagaland ==
  <<"N","a","g","a","l","a","n","d">>

S_Odisha ==
  <<"O","d","i","s","h","a">>

S_Punjab ==
  <<"P","u","n","j","a","b">>

S_Rajasthan ==
  <<"R","a","j","a","s","t","h","a","n">>

S_Sikkim ==
  <<"S","i","k","k","i","m">>

S_Tamil_Nadu ==
  <<"T","a","m","i","l"," ","N","a","d","u">>

S_Telangana ==
  <<"T","e","l","a","n","g","a","n","a">>

S_Tripura ==
  <<"T","r","i","p","u","r","a">>

S_Uttar_Pradesh ==
  <<"U","t","t","a","r"," ","P","r","a","d","e","s","h">>

S_Uttarakhand ==
  <<"U","t","t","a","r","a","k","h","a","n","d">>

S_West_Bengal ==
  <<"W","e","s","t"," ","B","e","n","g","a","l">>

S_Foreign ==
  <<"F","o","r","e","i","g","n">>

S_Unknown ==
  <<"U","n","k","n","o","w","n">>

S_Telangana_Andhra_Pradesh ==
  <<"T","e","l","a","n","g","a","n","a","/","A","n","d","h","r","a"," ","P","r","a","d","e","s","h">>

\* The list is only used for membership tests, so its order is dropped.
KNOWN_STATES ==
  { S_Andhra_Pradesh,
    S_Arunachal_Pradesh,
    S_Assam,
    S_Bihar,
    S_Chhattisgarh,
    S_Goa,
    S_Gujarat,
    S_Haryana,
    S_Himachal_Pradesh,
    S_Jharkhand,
    S_Karnataka,
    S_Kerala,
    S_Madhya_Pradesh,
    S_Maharashtra,
    S_Manipur,
    S_Meghalaya,
    S_Mizoram,
    S_Nagaland,
    S_Odisha,
    S_Punjab,
    S_Rajasthan,
    S_Sikkim,
    S_Tamil_Nadu,
    S_Telangana,
    S_Tripura,
    S_Uttar_Pradesh,
    S_Uttarakhand,
    S_West_Bengal,
    S_Foreign,
    S_Unknown,
    S_Telangana_Andhra_Pradesh }

\* REPLACEMENT_MAP (main.py 20-35): the keys of the dict literal.

K_AndhraPradesh ==
  <<"A","n","d","h","r","a","P","r","a","d","e","s","h">>

K_TamilNadu ==
  <<"T","a","m","i","l","N","a","d","u">>

K_Telagana ==
  <<"T","e","l","a","g","a","n","a">>

K_India_State_Undetermined ==
  <<"I","n","d","i","a"," ","(","S","t","a","t","e"," ","U","n","d","e","t","e","r","m","i","n","e","d",")">>

K_Overseas ==
  <<"O","v","e","r","s","e","a","s">>

K_LKDFJAKLD ==
  <<"L","K","D","F","J","A","K","L","D">>

K_India ==
  <<"I","n","d","i","a">>

K_Telengana ==
  <<"T","e","l","e","n","g","a","n","a">>

K_Telangana_State ==
  <<"T","e","l","a","n","g","a","n","a"," ","S","t","a","t","e">>

K_Andhra_Pradesh_Telangana ==
  <<"A","n","d","h","r","a"," ","P","r","a","d","e","s","h"," ","/"," ","T","e","l","a","n","g","a","n","a">>

K_Andhra_Pradesh_slashTelangana ==
  <<"A","n","d","h","r","a"," ","P","r","a","d","e","s","h"," ","/","T","e","l","a","n","g","a","n","a">>

K_Andhra_Pradesh_Telangana_sp ==
  <<"A","n","d","h","r","a"," ","P","r","a","d","e","s","h"," ","/"," ","T","e","l","a","n","g","a","n","a"," ">>

\* The dict as a set of <<key, value>> pairs; the literal repeats no key.
REPLACEMENT_MAP ==
  { <<K_AndhraPradesh, S_Andhra_Pradesh>>,
    <<K_TamilNadu, S_Tamil_Nadu>>,
    <<K_Telagana, S_Telangana>>,
    <<K_India_State_Undetermined, S_Unknown>>,
    <<K_Overseas, S_Foreign>>,
    <<K_LKDFJAKLD, S_Unknown>>,
    <<K_India, S_Unknown>>,
    <<K_Telengana, S_Telangana>>,
    <<K_Telangana_State, S_Telangana>>,
    <<K_Andhra_Pradesh_Telangana, S_Telangana_Andhra_Pradesh>>,
    <<K_Andhra_Pradesh_slashTelangana, S_Telangana_Andhra_Pradesh>>,
    <<K_Andhra_Pradesh_Telangana_sp, S_Telangana_Andhra_Pradesh>> }

----------------------------------------------------------------------------
\* Python values a cell of the 'college' column can hold after pd.read_csv:
\* a str, a missing value (float NaN), or a number when the whole column
\* parses as numeric.  None is what the college_name lambda yields.
NaN ==
  [kind |-> "nan", s |-> <<>>, n |-> 0]

None ==
  [kind |-> "none", s |-> <<>>, n |-> 0]

Str(s) ==
  [kind |-> "str", s |-> s, n |-> 0]

Num(n) ==
  [kind |-> "int", s |-> <<>>, n |-> n]

\* pd.isna on a scalar.
pd_isna(v) ==
  v.kind \in {"nan", "none"}

\* isinstance(v, str)
is_str(v) ==
  v.kind = "str"

Digit(d) ==
  <<"0","1","2","3","4","5","6","7","8","9">>[d + 1]

RECURSIVE NatStr(_)
NatStr(n) ==
  IF n < 10 THEN <<Digit(n)>> ELSE NatStr(n \div 10) \o <<Digit(n % 10)>>

\* str(v)
py_str(v) ==
  CASE v.kind = "str"  -> v.s
    [] v.kind = "int"  -> IF v.n < 0 THEN <<"-">> \o NatStr(-v.n) ELSE NatStr(v.n)
    [] v.kind = "nan"  -> <<"n","a","n">>
    [] v.kind = "none" -> <<"N","o","n","e">>

\* The characters str.strip() removes.
Whitespace ==
  {" ", "\t", "\n", "\r"}

SetMin(S) ==
  CHOOSE x \in S : \A y \in S : x <= y

SetMax(S) ==
  CHOOSE x \in S : \A y \in S : x >= y

\* s.strip()
strip(s) ==
  LET keep == {i \in 1..Len(s) : s[i] \notin Whitespace}
  IN  IF keep = {} THEN <<>> ELSE SubSeq(s, SetMin(keep), SetMax(keep))

\* c in s, for a one-character c
contains(s, c) ==
  \E i \in 1..Len(s) : s[i] = c

\* s.split(c, 1): at most one split, at the first c
split_1(s, c) ==
  IF ~contains(s, c) THEN <<s>>
  ELSE LET i == SetMin({j \in 1..Len(s) : s[j] = c})
       IN  <<SubSeq(s, 1, i - 1), SubSeq(s, i + 1, Len(s))>>

\* d.get(k, default)
dict_get(d, k, default) ==
  IF \E p \in d : p[1] = k THEN (CHOOSE p \in d : p[1] = k)[2] ELSE default

\* Variant: the alias lookup and the membership test come before the hyphen
\* rule.
determine_state_logic_lookup_first(college_val, replacement_map, known_states_list) ==
  IF pd_isna(college_val) THEN S_Unknown
  ELSE LET college_str == strip(py_str(college_val))
           potential_state == dict_get(replacement_map, college_str, college_str)
       IN  IF potential_state \in known_states_list THEN potential_state
           ELSE IF contains(college_str, "-") THEN S_Telangana
           ELSE S_Unknown

\* Variant: the result of the alias lookup is returned without the
\* membership test.
determine_state_logic_no_membership(college_val, replacement_map, known_states_list) ==
  IF pd_isna(college_val) THEN S_Unknown
  ELSE LET college_str == strip(py_str(college_val))
       IN  IF contains(college_str, "-") THEN S_Telangana
           ELSE dict_get(replacement_map, college_str, college_str)

\* Variant: the membership test reads the trimmed string, not the result of
\* the alias lookup.
determine_state_logic_member_of_raw(college_val, replacement_map, known_states_list) ==
  IF pd_isna(college_val) THEN S_Unknown
  ELSE LET college_str == strip(py_str(college_val))
       IN  IF contains(college_str, "-") THEN S_Telangana
           ELSE LET potential_state == dict_get(replacement_map, college_str, college_str)
                IN  IF college_str \in known_states_list THEN potential_state
                    ELSE S_Unknown

\* determine_state_logic(college_val, replacement_map, known_states_list)
determine_state_logic(college_val, replacement_map, known_states_list) ==
  IF pd_isna(college_val) THEN S_Unknown
  ELSE LET college_str == strip(py_str(college_val))
       IN  IF contains(college_str, "-") THEN S_Telangana
           ELSE LET potential_state == dict_get(replacement_map, college_str, college_str)
                IN  IF potential_state \in known_states_list THEN potential_state
                    ELSE S_Unknown

\* s.rsplit(c, 1): at most one split, at the last c
rsplit_1(s, c) ==
  IF ~contains(s, c) THEN <<s>>
  ELSE LET i == SetMax({j \in 1..Len(s) : s[j] = c})
       IN  <<SubSeq(s, 1, i - 1), SubSeq(s, i + 1, Len(s))>>

\* Variant: the name is split off at the last hyphen.
college_name_logic_last_hyphen(college, state) ==
  IF state = Str(S_Telangana) /\ is_str(college) /\ contains(py_str(college), "-")
  THEN Str(strip(rsplit_1(py_str(college), "-")[2]))
  ELSE None

\* Variant: the else branch yields '' instead of None.
college_name_logic_empty_else(college, state) ==
  IF state = Str(S_Telangana) /\ is_str(college) /\ contains(py_str(college), "-")
  THEN Str(strip(split_1(py_str(college), "-")[2]))
  ELSE Str(<<>>)

\* The lambda of load_data that derives college_name from a row's 'college'
\* and 'state' cells.
college_name_logic(college, state) ==
  IF state = Str(S_Telangana) /\ is_str(college) /\ contains(py_str(college), "-")
  THEN Str(strip(split_1(py_str(college), "-")[2]))
  ELSE None

----------------------------------------------------------------------------
\* Python compares str values by code point; the characters of the model in
\* code-point order.
CodeOrder ==
  <<"\t", "\n", "\r", " ", "(", ")", "-", "/",
    "0","1","2","3","4","5","6","7","8","9",
    "A","B","C","D","E","F","G","H","I","J","K","L","M",
    "N","O","P","Q","R","S","T","U","V","W","X","Y","Z",
    "a","b","c","d","e","f","g","h","i","j","k","l","m",
    "n","o","p","q","r","s","t","u","v","w","x","y","z">>

ord(c) ==
  CHOOSE i \in 1..Len(CodeOrder) : CodeOrder[i] = c

\* a < b on str
str_lt(a, b) ==
  \E k \in 1..(Len(b)) :
     /\ \A j \in 1..(k - 1) : j <= Len(a) /\ a[j] = b[j]
     /\ \/ k = Len(a) + 1
        \/ k <= Len(a) /\ ord(a[k]) < ord(b[k])

\* sorted(S) for a collection of distinct str
RECURSIVE sorted(_)
sorted(S) ==
  IF S = {} THEN <<>>
  ELSE LET m == CHOOSE x \in S : \A y \in S \ {x} : str_lt(x, y)
       IN  <<m>> \o sorted(S \ {m})

Range(f) ==
  {f[i] : i \in DOMAIN f}

----------------------------------------------------------------------------
\* A DataFrame: its column labels in order and its rows in order, each row a
\* function from column label to cell.
EmptyDataFrame ==
  [columns |-> <<>>, rows |-> <<>>]

\* df.empty
df_empty(df) ==
  Len(df.columns) = 0 \/ Len(df.rows) = 0

\* df[name] = vals: replaces the column when the label exists, appends it
\* otherwise.
set_column(df, name, vals) ==
  [columns |-> IF name \in Range(df.columns) THEN df.columns
               ELSE Append(df.columns, name),
   rows    |-> [i \in 1..Len(df.rows) |->
                  [c \in (DOMAIN df.rows[i]) \cup {name} |->
                     IF c = name THEN vals[i] ELSE df.rows[i][c]]]]

\* df[df['state'] == label]
filter_state(df, label) ==
  [columns |-> df.columns,
   rows    |-> SelectSeq(df.rows, LAMBDA r : r["state"] = Str(label))]

\* Variant: a frame without a 'college' column is returned as read.
load_data_returns_frame(uploaded_file) ==
  IF ~uploaded_file.readable THEN EmptyDataFrame
  ELSE LET df == uploaded_file.frame IN
       IF "college" \notin Range(df.columns) THEN df
       ELSE LET with_state ==
                  set_column(df, "state",
                    [i \in 1..Len(df.rows) |->
                       Str(determine_state_logic(df.rows[i]["college"],
                                                 REPLACEMENT_MAP, KNOWN_STATES))])
            IN  set_column(with_state, "college_name",
                  [i \in 1..Len(with_state.rows) |->
                     college_name_logic(with_state.rows[i]["college"],
                                        with_state.rows[i]["state"])])

\* The message load_data reports with st.error, "" when it reports none.
load_data_error(uploaded_file) ==
  IF ~uploaded_file.readable THEN "Error reading CSV file"
  ELSE IF "college" \notin Range(uploaded_file.frame.columns)
       THEN "CSV must contain a 'college' column."
       ELSE ""

\* load_data(uploaded_file).  The file is given by what pd.read_csv makes of
\* it: unreadable (read_csv raises) or a frame.
load_data(uploaded_file) ==
  IF ~uploaded_file.readable THEN EmptyDataFrame
  ELSE LET df == uploaded_file.frame IN
       IF "college" \notin Range(df.columns) THEN EmptyDataFrame
       ELSE LET with_state ==
                  set_column(df, "state",
                    [i \in 1..Len(df.rows) |->
                       Str(determine_state_logic(df.rows[i]["college"],
                                                 REPLACEMENT_MAP, KNOWN_STATES))])
            IN  set_column(with_state, "college_name",
                  [i \in 1..Len(with_state.rows) |->
                     college_name_logic(with_state.rows[i]["college"],
                                        with_state.rows[i]["state"])])

----------------------------------------------------------------------------
\* Bounds of the model.
MaxRows ==
  3

MaxRuns ==
  3

MaxLen ==
  3

\* head(10) of the "Top 10 Telangana Colleges" chart.
TOP_N ==
  10

\* The first option of the "Select State" selectbox.
ALL ==
  <<"A","l","l">>

----------------------------------------------------------------------------
\* The state of the dashboard.
VARIABLES
  csv,                 \* what pd.read_csv makes of the file the user holds
  uploaded_file,       \* st.file_uploader: TRUE when the file is uploaded
  view,                \* "welcome", "no_data" (the warning) or "dashboard"
  st_error,            \* load_data: the st.error message of the last run
  df_processed,        \* main: the frame load_data returned in the last run
  state_options,       \* main: options of the selectbox after "All"
  selected_state,      \* main: what the selectbox returned
  filtered_df,         \* main: the rows of the selected state
  metrics,             \* main: the three st.metric values
  table_shown,         \* tab2: the Telangana college table is displayed
  college_counts_df_display,  \* tab2: its rows, <<name, count>>
  college_chart,       \* tab2: the rows of the top-10 bar chart
  tab2_error,          \* tab2: the frame has no 'email' column to display
  load_data_calls,     \* number of load_data calls since the upload
  df_at_upload,        \* the frame load_data returned in the run of the upload
  \* One call of the classifier and the name lambda on one value.
  college_val,         \* the argument
  registry,            \* replacement_map and known_states_list passed
  fn_pc,               \* "input", "classified" or "extracted"
  fn_state,            \* what determine_state_logic returned
  fn_name              \* what the college_name lambda returned

dash_vars ==
  <<csv, uploaded_file, view, st_error, df_processed, state_options, selected_state,
    filtered_df, metrics, table_shown, college_counts_df_display,
    college_chart, tab2_error, load_data_calls, df_at_upload>>

fn_vars ==
  <<college_val, registry, fn_pc, fn_state, fn_name>>

vars ==
  <<dash_vars, fn_vars>>

----------------------------------------------------------------------------
\* Input files.  A 'college' column read by pd.read_csv holds str and NaN
\* cells, or numbers and NaN when every non-empty cell parses as a number.
StrCells ==
  { Str(<<"1","-","b">>), Str(<<"2"," ","-"," ","a">>), Str(<<"3","-"," ">>),
    Str(K_Overseas) }

NumCells ==
  { Num(-1) }

CellSeqs(cells) ==
  UNION { [1..n -> cells \cup {NaN}] : n \in 0..MaxRows }

Layouts ==
  { <<"email", "college">>, <<"college">>, <<"email", "college", "state">>,
    <<"email">>, <<"email", "state">> }

Frame(columns, cs) ==
  [columns |-> columns,
   rows    |-> [i \in 1..Len(cs) |->
                  [c \in Range(columns) |->
                     CASE c = "college" -> cs[i]
                       [] c = "email"   -> Str(<<Digit(i)>>)
                       [] OTHER         -> Str(<<"x">>)]]]

Unreadable ==
  [readable |-> FALSE, frame |-> EmptyDataFrame]

Files ==
  {Unreadable} \cup
  { [readable |-> TRUE, frame |-> Frame(l, cs)] :
      l \in Layouts, cs \in CellSeqs(StrCells) \cup CellSeqs(NumCells) }

----------------------------------------------------------------------------
\* sorted([s for s in df['state'].unique() if pd.notna(s)])
unique_states(df) ==
  sorted({ r["state"].s : r \in {q \in Range(df.rows) : ~pd_isna(q["state"])} })

\* The entries of series.value_counts(): one per distinct non-null value.
count_entries(df, column) ==
  { <<v.s, Cardinality({i \in 1..Len(df.rows) : df.rows[i][column] = v})>> :
      v \in { r[column] : r \in {q \in Range(df.rows) : ~pd_isna(q[column])} } }

\* series.value_counts(): the entries by count descending.  pandas fixes no
\* order among entries of equal count, so every such order is an outcome.
value_counts(df, column) ==
  LET E == count_entries(df, column)
      n == Cardinality(E)
  IN  { o \in [1..n -> E] :
          /\ \A i, j \in 1..n : i # j => o[i] # o[j]
          /\ \A i, j \in 1..n : i < j => o[i][2] >= o[j][2] }

\* df.head(n)
head(seq, n) ==
  SubSeq(seq, 1, IF Len(seq) < n THEN Len(seq) ELSE n)

NoMetrics ==
  [total |-> 0, states |-> 0, telangana |-> 0]

\* Variant: the blank names are kept.
drop_blank_keeps_all(counts) ==
  counts

\* college_counts_df[college_counts_df['college'].str.strip() != '']
drop_blank(counts) ==
  SelectSeq(counts, LAMBDA e : strip(e[1]) # <<>>)

\* main() with a file uploaded: one run of the script with the selectbox
\* returning sel.
Dashboard(sel) ==
  LET df == load_data(csv) IN
  /\ df_processed' = df
  /\ st_error' = load_data_error(csv)
  /\ load_data_calls' = load_data_calls + 1
  /\ IF df_empty(df)
     THEN /\ view' = "no_data"
          /\ state_options' = <<>>
          /\ selected_state' = ALL
          /\ filtered_df' = EmptyDataFrame
          /\ metrics' = NoMetrics
          /\ table_shown' = FALSE
          /\ college_counts_df_display' = <<>>
          /\ college_chart' = <<>>
          /\ tab2_error' = FALSE
     ELSE LET has_state == "state" \in Range(df.columns)
              options == IF has_state THEN unique_states(df) ELSE <<>>
              filtered == IF sel = ALL THEN df ELSE filter_state(df, sel)
              telangana == filter_state(filtered, S_Telangana)
              show == /\ sel = S_Telangana
                      /\ "college_name" \in Range(filtered.columns)
                      /\ ~(\A r \in Range(telangana.rows) : pd_isna(r["college_name"]))
          IN  /\ view' = "dashboard"
              /\ state_options' = options
              /\ selected_state' = sel
              /\ filtered_df' = filtered
              /\ metrics' = [total     |-> Len(df.rows),
                             states    |-> Len(options),
                             telangana |-> IF has_state
                                           THEN Len(filter_state(df, S_Telangana).rows)
                                           ELSE 0]
              /\ table_shown' = show
              /\ IF show
                 THEN \E counts \in value_counts(telangana, "college_name") :
                        /\ college_counts_df_display' = drop_blank(counts)
                        /\ college_chart' = head(drop_blank(counts), TOP_N)
                 ELSE /\ college_counts_df_display' = <<>>
                      /\ college_chart' = <<>>
              /\ tab2_error' = (sel # S_Telangana /\ "email" \notin Range(filtered.columns))

\* The user uploads the file: the script runs with the selectbox at "All".
Upload ==
  /\ ~uploaded_file
  /\ uploaded_file' = TRUE
  /\ Dashboard(ALL)
  /\ df_at_upload' = load_data(csv)
  /\ UNCHANGED <<csv, fn_vars>>

\* The user picks another option of the selectbox: the script runs again.
SelectState ==
  /\ uploaded_file
  /\ view = "dashboard"
  /\ load_data_calls < MaxRuns
  /\ \E sel \in ({ALL} \cup Range(state_options)) \ {selected_state} :
       Dashboard(sel)
  /\ UNCHANGED <<csv, uploaded_file, df_at_upload, fn_vars>>

\* The user removes the file: the script runs and shows the welcome text.
Remove ==
  /\ uploaded_file
  /\ uploaded_file' = FALSE
  /\ view' = "welcome"
  /\ st_error' = ""
  /\ df_processed' = EmptyDataFrame
  /\ state_options' = <<>>
  /\ selected_state' = ALL
  /\ filtered_df' = EmptyDataFrame
  /\ metrics' = NoMetrics
  /\ table_shown' = FALSE
  /\ college_counts_df_display' = <<>>
  /\ college_chart' = <<>>
  /\ tab2_error' = FALSE
  /\ load_data_calls' = 0
  /\ df_at_upload' = EmptyDataFrame
  /\ UNCHANGED <<csv, fn_vars>>

\* The arguments load_data passes for the two registry parameters.
Shipped ==
  [replacement_map |-> REPLACEMENT_MAP, known_states_list |-> KNOWN_STATES]

FnIdle ==
  /\ college_val = NaN
  /\ registry = Shipped
  /\ fn_pc = "input"
  /\ fn_state = <<>>
  /\ fn_name = None

Init ==
  /\ csv \in Files
  /\ uploaded_file = FALSE
  /\ view = "welcome"
  /\ st_error = ""
  /\ df_processed = EmptyDataFrame
  /\ state_options = <<>>
  /\ selected_state = ALL
  /\ filtered_df = EmptyDataFrame
  /\ metrics = NoMetrics
  /\ table_shown = FALSE
  /\ college_counts_df_display = <<>>
  /\ college_chart = <<>>
  /\ tab2_error = FALSE
  /\ load_data_calls = 0
  /\ df_at_upload = EmptyDataFrame
  /\ FnIdle

Next ==
  \/ Upload
  \/ SelectState
  \/ Remove

Spec ==
  Init /\ [][Next]_vars

----------------------------------------------------------------------------
\* One call of determine_state_logic and of the college_name lambda on one
\* value, for the properties of the two functions.
\* Arguments for the two registry parameters in which a key, a target and a
\* state name hold a hyphen, which no entry of the shipped data does.
Hyphened ==
  [replacement_map   |-> { <<<<"a","-">>, S_Goa>>,
                           <<<<"a","a">>, <<"a","-","a">>>>,
                           <<K_Overseas, S_Foreign>> },
   known_states_list |-> { S_Goa, S_Foreign, S_Unknown, <<"a","-","a">>, <<"-">> }]

Registries ==
  {Shipped, Hyphened}

Alphabet ==
  {" ", "-", "a"}

ShortStrings ==
  UNION { [1..n -> Alphabet] : n \in 0..MaxLen }

Keys(d) ==
  {p[1] : p \in d}

\* A name of the registry as it is, padded, and with a hyphen put in.
Variants(s) ==
  LET h == Len(s) \div 2
  IN  { s, <<" ">> \o s, s \o <<" ">>, <<" ">> \o s \o <<"\t">>,
        s \o <<"-">>, <<"-">> \o s,
        SubSeq(s, 1, h) \o <<"-">> \o SubSeq(s, h + 1, Len(s)) }

Examples ==
  { <<"C","O","D","E"," ","-","-"," ","N","A","M","E">>,
    <<"C","O","D","E"," ","-">>,
    <<"V","J","I","T"," ","-"," ","A","B","C">>,
    <<"X","Y","Z"," ","-"," ","A","B","C"," ","-"," ","C","o","l","l","e","g","e">>,
    <<"X","Y","Z">> }

Values ==
  {NaN, None} \cup {Num(-12), Num(-1), Num(0), Num(7)} \cup
  { Str(s) : s \in ShortStrings \cup Examples \cup
                   UNION { Variants(s) : s \in KNOWN_STATES \cup Keys(REPLACEMENT_MAP) } }

DashIdle ==
  /\ csv = Unreadable
  /\ uploaded_file = FALSE
  /\ view = "welcome"
  /\ st_error = ""
  /\ df_processed = EmptyDataFrame
  /\ state_options = <<>>
  /\ selected_state = ALL
  /\ filtered_df = EmptyDataFrame
  /\ metrics = NoMetrics
  /\ table_shown = FALSE
  /\ college_counts_df_display = <<>>
  /\ college_chart = <<>>
  /\ tab2_error = FALSE
  /\ load_data_calls = 0
  /\ df_at_upload = EmptyDataFrame

InitFn ==
  /\ DashIdle
  /\ college_val \in Values
  /\ registry \in Registries
  /\ fn_pc = "input"
  /\ fn_state = <<>>
  /\ fn_name = None

Classify ==
  /\ fn_pc = "input"
  /\ fn_state' = determine_state_logic(college_val, registry.replacement_map,
                                       registry.known_states_list)
  /\ fn_pc' = "classified"
  /\ UNCHANGED <<college_val, registry, fn_name, dash_vars>>

ExtractName ==
  /\ fn_pc = "classified"
  /\ fn_name' = college_name_logic(college_val, Str(fn_state))
  /\ fn_pc' = "extracted"
  /\ UNCHANGED <<college_val, registry, fn_state, dash_vars>>

NextFn ==
  \/ Classify
  \/ ExtractName

SpecFn ==
  InitFn /\ [][NextFn]_vars

----------------------------------------------------------------------------
\* Properties.

HasHyphen(s) ==
  \E i \in 1..Len(s) : s[i] = "-"

\* The text of a value with the surrounding whitespace removed is neither a
\* region name nor an alias of the registry.
Garbage(v, reg) ==
  \A t \in reg.known_states_list \cup Keys(reg.replacement_map) :
     \A pre, post \in 0..Len(py_str(v)) :
        ~ ( /\ pre + Len(t) + post = Len(py_str(v))
            /\ SubSeq(py_str(v), pre + 1, pre + Len(t)) = t
            /\ \A j \in 1..pre : py_str(v)[j] \in Whitespace
            /\ \A j \in (pre + Len(t) + 1)..Len(py_str(v)) : py_str(v)[j] \in Whitespace
            /\ (t = <<>> => pre = 0) )

Labels(reg) ==
  reg.known_states_list \cup {S_Unknown, S_Telangana}

\* name is the text of s after its first hyphen, without the whitespace
\* around it.
IsTextAfterFirstHyphen(s, name) ==
  \E i \in 1..Len(s) :
     /\ s[i] = "-"
     /\ \A j \in 1..(i - 1) : s[j] # "-"
     /\ \E a \in (i + 1)..(Len(s) + 1), b \in i..Len(s) :
          /\ a <= b + 1
          /\ name = SubSeq(s, a, b)
          /\ \A j \in (i + 1)..(a - 1) : s[j] \in Whitespace
          /\ \A j \in (b + 1)..Len(s) : s[j] \in Whitespace
          /\ a <= b => (s[a] \notin Whitespace /\ s[b] \notin Whitespace)

\* C1: a str with a hyphen anywhere is classified 'Telangana', also when its
\* trimmed form is a key of the alias map or a member of the region list.
C1_HyphenWins ==
  (fn_pc # "input" /\ is_str(college_val) /\ HasHyphen(college_val.s))
     => fn_state = S_Telangana

C1_Witness ==
  /\ fn_pc # "input"
  /\ is_str(college_val)
  /\ HasHyphen(college_val.s)
  /\ ~Garbage(college_val, registry)
  /\ fn_state = S_Telangana

\* C2 as stated: the classifier returns a label for every value, and every
\* absent, null or garbage value resolves to 'Unknown'.
C2_GarbageIsUnknown ==
  fn_pc # "input" =>
     /\ fn_state \in Labels(registry)
     /\ (pd_isna(college_val) \/ Garbage(college_val, registry)) => fn_state = S_Unknown

\* C2 amended: the classifier returns a label for every value, and every
\* absent or null value and every garbage value whose text holds no hyphen
\* resolves to 'Unknown'.
C2_HyphenFreeGarbageIsUnknown ==
  fn_pc # "input" =>
     /\ fn_state \in Labels(registry)
     /\ ( \/ pd_isna(college_val)
          \/ (Garbage(college_val, registry) /\ ~HasHyphen(py_str(college_val))) )
        => fn_state = S_Unknown

C2_Witness ==
  /\ fn_pc # "input"
  /\ is_str(college_val)
  /\ Len(college_val.s) > 0
  /\ Garbage(college_val, registry)
  /\ ~HasHyphen(college_val.s)
  /\ fn_state = S_Unknown

\* C3: a key of REPLACEMENT_MAP whose target holds no hyphen is classified
\* as its target is, the key ending in a space included.
C3_AliasAsTarget ==
  (fn_pc # "input" /\ registry = Shipped /\ is_str(college_val)
     /\ college_val.s \in Keys(REPLACEMENT_MAP))
  => \A p \in REPLACEMENT_MAP :
        (p[1] = college_val.s /\ ~HasHyphen(p[2]))
           => fn_state = determine_state_logic(Str(p[2]), REPLACEMENT_MAP, KNOWN_STATES)

C3_Witness ==
  /\ fn_pc # "input"
  /\ registry = Shipped
  /\ college_val = Str(K_Andhra_Pradesh_Telangana_sp)
  /\ fn_state = S_Telangana_Andhra_Pradesh

\* C4: in every record load_data returns, college_name is None unless state
\* is 'Telangana'.
C4_NameOnlyOnTelangana ==
  \A r \in Range(df_processed.rows) :
     r["state"] # Str(S_Telangana) => r["college_name"] = None

C4_Witness ==
  /\ view = "dashboard"
  /\ \E r \in Range(df_processed.rows) :
        r["state"] # Str(S_Telangana) /\ is_str(r["college"]) /\ r["college_name"] = None
  /\ \E r \in Range(df_processed.rows) :
        r["state"] = Str(S_Telangana) /\ r["college_name"] = Str(<<>>)

\* C5: for a str with a hyphen classified 'Telangana', the name is the text
\* after the first hyphen without the whitespace around it: later hyphens
\* stay, and nothing but whitespace gives '' and not None.
C5_NameAfterFirstHyphen ==
  (fn_pc = "extracted" /\ is_str(college_val) /\ HasHyphen(college_val.s)
     /\ fn_state = S_Telangana)
  => /\ fn_name.kind = "str"
     /\ IsTextAfterFirstHyphen(college_val.s, fn_name.s)

C5_Witness ==
  /\ fn_pc = "extracted"
  /\ college_val = Str(<<"C","O","D","E"," ","-","-"," ","N","A","M","E">>)
  /\ fn_name = Str(<<"-"," ","N","A","M","E">>)

\* C6: for a file with a 'college' column, load_data returns as many records
\* as it read, the i-th with the fields of the i-th record read unmodified
\* plus state and college_name, its state decided by its own college value.
C6_RecordsPreserved ==
  (uploaded_file /\ csv.readable /\ "college" \in Range(csv.frame.columns))
  => /\ Len(df_processed.rows) = Len(csv.frame.rows)
     /\ \A i \in 1..Len(csv.frame.rows) :
          /\ DOMAIN df_processed.rows[i]
               = (DOMAIN csv.frame.rows[i]) \cup {"state", "college_name"}
          /\ \A c \in DOMAIN csv.frame.rows[i] :
               df_processed.rows[i][c] = csv.frame.rows[i][c]
          /\ df_processed.rows[i]["state"]
               = Str(determine_state_logic(csv.frame.rows[i]["college"],
                                           REPLACEMENT_MAP, KNOWN_STATES))

\* C7: the Telangana college table has no entry with an absent or blank
\* name, one entry per name, and each entry counts the records of state
\* 'Telangana' with that name.
C7_CollegeTable ==
  table_shown =>
     /\ selected_state = S_Telangana
     /\ \A k \in 1..Len(college_counts_df_display) :
          LET e == college_counts_df_display[k] IN
          /\ \E i \in 1..Len(e[1]) : e[1][i] \notin Whitespace
          /\ e[2] >= 1
          /\ e[2] = Cardinality({ i \in 1..Len(df_processed.rows) :
                       /\ df_processed.rows[i]["state"] = Str(S_Telangana)
                       /\ df_processed.rows[i]["college_name"] = Str(e[1]) })
          /\ \A m \in 1..Len(college_counts_df_display) :
               m # k => college_counts_df_display[m][1] # e[1]

C7_Witness ==
  /\ table_shown
  /\ Len(college_counts_df_display) >= 1
  /\ \E r \in Range(df_processed.rows) : r["college_name"] = Str(<<>>)

\* C8: the top-10 chart lists its entries by count descending and entries of
\* equal count by name ascending.
C8_ByCountThenName ==
  \A i, j \in 1..Len(college_chart) :
     i < j => \/ college_chart[i][2] > college_chart[j][2]
              \/ /\ college_chart[i][2] = college_chart[j][2]
                 /\ str_lt(college_chart[i][1], college_chart[j][1])

\* C9: for a file without a 'college' column load_data reports the schema
\* error and returns the empty frame, no record with a derived field, and
\* main stops at the warning with no option, metric or table computed.
C9_SchemaErrorStops ==
  (uploaded_file /\ csv.readable /\ "college" \notin Range(csv.frame.columns))
  => /\ st_error = "CSV must contain a 'college' column."
     /\ df_processed = EmptyDataFrame
     /\ view = "no_data"
     /\ state_options = <<>>
     /\ filtered_df = EmptyDataFrame
     /\ metrics = NoMetrics
     /\ ~table_shown
     /\ college_chart = <<>>

C9_Witness ==
  /\ uploaded_file
  /\ csv.readable
  /\ "college" \notin Range(csv.frame.columns)
  /\ Len(csv.frame.rows) > 0
  /\ view = "no_data"

\* C10: while a file stays uploaded, load_data has run once, whatever the
\* changes of the selected state, and the records shown are those of that
\* run.
C10_ClassifiedOncePerUpload ==
  uploaded_file => (load_data_calls = 1 /\ df_processed = df_at_upload)
====
